---- MODULE Spec2Model ----
(***************************************************************************)
(* Routing and validation core of examples/advance/report_writer_new:      *)
(* the selector function of final_team, the two round-robin pairs          *)
(* team_insight / team_blueprint with their JSON repair agents, and the    *)
(* console loop assistant_run that submits tasks to final_team.            *)
(***************************************************************************)
EXTENDS Integers, Sequences, FiniteSets, TLC

VARIABLES pc, log, decision, error, speaker, sub, rr, dispatched, nTasks,
          log2, decision2, rep

vars == <<pc, log, decision, error, speaker, sub, rr, dispatched, nTasks,
          log2, decision2, rep>>

(***************************************************************************)
(* Bounds of the model.                                                    *)
(***************************************************************************)
MaxTasks == 4
MaxLiveTasks == 4
MaxLogLen == 4

(***************************************************************************)
(* Python's `str | None`: None is the empty tuple, a string s is <<s>>.    *)
(***************************************************************************)
None == <<>>
Some(s) == <<s>>

(***************************************************************************)
(* JSON values carried as message content.  JText is content that does not *)
(* parse as JSON at all (free text, or nothing).                           *)
(***************************************************************************)
JStr(s) == [k |-> "str", s |-> s]
JNum(s) == [k |-> "num", s |-> s]
JNull == [k |-> "null"]
JList(items) == [k |-> "list", items |-> items]
JMap(f) == [k |-> "map", f |-> f]
JText(s) == [k |-> "text", s |-> s]

(***************************************************************************)
(* str.strip() on the strings the model uses.                              *)
(***************************************************************************)
Strip(s) ==
    CASE s = " 2 " -> "2"
      [] s = " refiner_agent " -> "refiner_agent"
      [] s = " report " -> "report"
      [] s = " " -> ""
      [] OTHER -> s

(***************************************************************************)
(* The pydantic models.  A field is required unless it has a default.      *)
(***************************************************************************)
TStr == [t |-> "str"]
TOptStr == [t |-> "optstr"]
TLiteral(vals) == [t |-> "literal", vals |-> vals]
TList(elem) == [t |-> "list", elem |-> elem]
TModel(fields) == [t |-> "model", fields |-> fields]
Field(name, ty) == [name |-> name, ty |-> ty, required |-> TRUE]
OptField(name, ty) == [name |-> name, ty |-> ty, required |-> FALSE]

ExistingInformation ==
    TModel(<<Field("document_type", TStr),
             Field("target_audience", TStr),
             Field("writing_purpose", TStr),
             Field("style_requirement", TStr),
             Field("key_content", TList(TStr))>>)

SupplementaryQuestion ==
    TModel(<<Field("question", TStr),
             Field("options", TList(TStr)),
             Field("reason", TStr),
             Field("type", TLiteral({"open", "single_choice", "multiple_choice"}))>>)

WordInsightAnalysis ==
    TModel(<<Field("existing_information", ExistingInformation),
             Field("supplementary_questions", TList(SupplementaryQuestion))>>)

Section ==
    TModel(<<Field("subheading", TStr),
             Field("points", TList(TStr)),
             OptField("description", TOptStr)>>)

WordBlueprintStructure ==
    TModel(<<Field("title", TStr),
             Field("sections", TList(Section)),
             Field("estimated_length", TStr)>>)

FieldNames(ty) == {ty.fields[i].name : i \in 1..Len(ty.fields)}
FieldOf(ty, n) == ty.fields[CHOOSE i \in 1..Len(ty.fields) : ty.fields[i].name = n]

(***************************************************************************)
(* An instance of a model: exactly the declared fields, each of its type.  *)
(***************************************************************************)
RECURSIVE Conforms(_, _)
Conforms(v, ty) ==
    CASE ty.t = "str" -> v.k = "str"
      [] ty.t = "optstr" -> v.k \in {"str", "null"}
      [] ty.t = "literal" -> v.k = "str" /\ v.s \in ty.vals
      [] ty.t = "list" ->
            /\ v.k = "list"
            /\ \A i \in 1..Len(v.items) : Conforms(v.items[i], ty.elem)
      [] ty.t = "model" ->
            /\ v.k = "map"
            /\ DOMAIN v.f = FieldNames(ty)
            /\ \A n \in FieldNames(ty) : Conforms(v.f[n], FieldOf(ty, n).ty)

(***************************************************************************)
(* output_content_type: the agent's reply is parsed with                   *)
(* model_validate_json.  Validates says whether parsing succeeds (a        *)
(* required field missing or a value of the wrong type raises); Instance   *)
(* is the parsed object: unknown keys ignored, absent optional fields set  *)
(* to their default None.                                                  *)
(***************************************************************************)
RECURSIVE Validates(_, _)
Validates(raw, ty) ==
    CASE ty.t = "str" -> raw.k = "str"
      [] ty.t = "optstr" -> raw.k \in {"str", "null"}
      [] ty.t = "literal" -> raw.k = "str" /\ raw.s \in ty.vals
      [] ty.t = "list" ->
            /\ raw.k = "list"
            /\ \A i \in 1..Len(raw.items) : Validates(raw.items[i], ty.elem)
      [] ty.t = "model" ->
            /\ raw.k = "map"
            /\ \A i \in 1..Len(ty.fields) :
                  LET fd == ty.fields[i] IN
                  IF fd.name \in DOMAIN raw.f
                     THEN Validates(raw.f[fd.name], fd.ty)
                     ELSE ~fd.required

InstanceNoDefaults(raw, ty) == raw

RECURSIVE Instance(_, _)
Instance(raw, ty) ==
    CASE ty.t = "list" ->
            JList([i \in 1..Len(raw.items) |-> Instance(raw.items[i], ty.elem)])
      [] ty.t = "model" ->
            JMap([n \in FieldNames(ty) |->
                    IF n \in DOMAIN raw.f
                       THEN Instance(raw.f[n], FieldOf(ty, n).ty)
                       ELSE JNull])
      [] OTHER -> raw

(***************************************************************************)
(* The repair rules of the two JSON agents' system messages.               *)
(*   missing field   -> its default ("" / [] / "500-1000zi" / all-default) *)
(*   type mismatch   -> converted, or (as in the worked examples) dropped  *)
(*   illegal value   -> "open" for type, "500-1000zi" for estimated_length *)
(*   bad nesting     -> [] for a non-list, the default object for a        *)
(*                      non-dict                                           *)
(*   unparseable     -> the all-defaults JSON                              *)
(* The rule text converts a non-string list item to a string while the     *)
(* examples drop it: mode is "coerce" or "drop".  "zi" stands for the      *)
(* character that ends the length strings of the prompts.                  *)
(***************************************************************************)
RepairModes == {"drop", "coerce"}
DefaultLengthLong == "800-1200zi"
DefaultLength == "500-1000zi"
LengthPattern(s) == s \in {"500-1000zi", "800-1200zi"}

RECURSIVE AllDefaults(_)
DocumentedDefaultNullList(name, ty) ==
    CASE name = "estimated_length" -> JStr(DefaultLength)
      [] ty.t = "str" -> JStr("")
      [] ty.t = "optstr" -> JNull
      [] ty.t = "literal" -> JStr("open")
      [] ty.t = "list" -> JNull
      [] ty.t = "model" -> AllDefaults(ty)

DocumentedDefault(name, ty) ==
    CASE name = "estimated_length" -> JStr(DefaultLength)
      [] ty.t = "str" -> JStr("")
      [] ty.t = "optstr" -> JNull
      [] ty.t = "literal" -> JStr("open")
      [] ty.t = "list" -> JList(<<>>)
      [] ty.t = "model" -> AllDefaults(ty)

AllDefaults(ty) ==
    JMap([n \in FieldNames(ty) |-> DocumentedDefault(n, FieldOf(ty, n).ty)])

RecoverableUnlessDigits(v, ty, mode) ==
    CASE ty.t = "str" -> (v.k = "str" /\ v.s # "123") \/ (v.k = "num" /\ mode = "coerce")
      [] ty.t = "model" -> v.k = "map"
      [] OTHER -> FALSE

\* Can a list item be turned into an element of type ty at all?
Recoverable(v, ty, mode) ==
    CASE ty.t = "str" -> v.k = "str" \/ (v.k = "num" /\ mode = "coerce")
      [] ty.t = "model" -> v.k = "map"
      [] OTHER -> FALSE

RepairKeepsInput(v, name, ty, mode) == v

RECURSIVE Repair(_, _, _, _)
Repair(v, name, ty, mode) ==
    CASE ty.t = "str" ->
            IF v.k = "str"
               THEN IF name = "estimated_length" /\ ~LengthPattern(Strip(v.s))
                       THEN JStr(DefaultLength)
                       ELSE JStr(Strip(v.s))
               ELSE IF v.k = "num" /\ name # "estimated_length"
                       THEN JStr(v.s)
                       ELSE DocumentedDefault(name, ty)
      [] ty.t = "optstr" ->
            IF v.k = "str" THEN JStr(Strip(v.s)) ELSE JNull
      [] ty.t = "literal" ->
            IF v.k = "str" /\ v.s \in ty.vals THEN v ELSE JStr("open")
      [] ty.t = "list" ->
            IF v.k # "list"
               THEN JList(<<>>)
               ELSE LET keep == SelectSeq(v.items,
                                          LAMBDA x : Recoverable(x, ty.elem, mode))
                    IN  JList([i \in 1..Len(keep) |->
                                  Repair(keep[i], "", ty.elem, mode)])
      [] ty.t = "model" ->
            IF v.k # "map"
               THEN AllDefaults(ty)
               ELSE JMap([n \in FieldNames(ty) |->
                            IF n \in DOMAIN v.f
                               THEN Repair(v.f[n], n, FieldOf(ty, n).ty, mode)
                               ELSE DocumentedDefault(n, FieldOf(ty, n).ty)])

(***************************************************************************)
(* Messages: source, content, metadata (a set of <<key, value>> pairs).    *)
(***************************************************************************)
Message(source, content, metadata) ==
    [source |-> source, content |-> content, metadata |-> metadata]

\* dict.get(key): the value, or None when the key is absent
MetaGet(metadata, key) ==
    IF \E p \in metadata : p[1] = key
       THEN Some((CHOOSE p \in metadata : p[1] = key)[2])
       ELSE None

Sources(msgs) == [i \in 1..Len(msgs) |-> msgs[i].source]

(***************************************************************************)
(* The participants.                                                       *)
(***************************************************************************)
Teams == {"team_insight", "team_blueprint"}

\* RoundRobinGroupChat([content agent, JSON agent])
TeamAgents(team) ==
    IF team = "team_insight"
       THEN <<"word_insight_agent", "word_insight_json_agent">>
       ELSE <<"word_blueprint_agent", "word_blueprint_json_agent">>

TeamSourcesContentAgent(team) == {TeamAgents(team)[1]}

\* termination_condition = SourceMatchTermination(sources = [JSON agent])
TeamSources(team) ==
    IF team = "team_insight"
       THEN {"word_insight_json_agent"}
       ELSE {"word_blueprint_json_agent"}

OutputContentTypeUnset(agent) == None

\* output_content_type of an agent, None for a free-text agent
OutputContentType(agent) ==
    CASE agent = "word_insight_json_agent" -> Some(WordInsightAnalysis)
      [] agent = "word_blueprint_json_agent" -> Some(WordBlueprintStructure)
      [] OTHER -> None

\* participants of final_team
RosterNames ==
    {"team_insight", "team_blueprint", "writer_agent", "refiner_agent",
     "explainer_agent"}

IsParticipantAny(name) == TRUE

\* SelectorGroupChat accepts a selector result only if it names a participant
IsParticipant(name) == name \in RosterNames

FinalSourcesNoWriter ==
    {"word_insight_json_agent", "word_blueprint_json_agent",
     "refiner_agent", "explainer_agent"}

\* termination_condition of final_team
FinalSources ==
    {"word_insight_json_agent", "word_blueprint_json_agent", "writer_agent",
     "refiner_agent", "explainer_agent"}

SourceMatchAll(delta, sources) ==
    delta # <<>> /\ \A i \in 1..Len(delta) : delta[i].source \in sources

\* SourceMatchTermination: fires when a new message comes from a listed source
SourceMatch(delta, sources) ==
    \E i \in 1..Len(delta) : delta[i].source \in sources

(***************************************************************************)
(* selector_func                                                           *)
(***************************************************************************)
\* variants of the selector kept for comparison with selector_func
agent_names_recent(messages) ==
    {messages[i].source : i \in {j \in 1..Len(messages) : j + 2 > Len(messages)}}
       \ {""}

RECURSIVE agent_names(_)
agent_names(messages) ==
    IF messages = <<>>
       THEN {}
       ELSE LET msg == Head(messages)
            IN  (IF msg.source # "" THEN {msg.source} ELSE {})
                   \cup agent_names(Tail(messages))

selector_func_swapped(messages) ==
    LET names == agent_names(messages) IN
    IF "word_blueprint_json_agent" \notin names
       THEN Some("team_blueprint")
    ELSE IF "word_insight_json_agent" \notin names
       THEN Some("team_insight")
    ELSE IF "writer_agent" \notin names
       THEN Some("writer_agent")
    ELSE MetaGet(messages[Len(messages)].metadata, "select_agent")

selector_func_override_first(messages) ==
    LET names == agent_names(messages)
        override == IF messages = <<>> THEN None
                    ELSE MetaGet(messages[Len(messages)].metadata, "select_agent")
    IN
    IF "word_insight_json_agent" \notin names
       THEN Some("team_insight")
    ELSE IF "word_blueprint_json_agent" \notin names
       THEN Some("team_blueprint")
    ELSE IF override # None
       THEN override
    ELSE Some("writer_agent")

selector_func_ordered(messages) ==
    LET After(a, from) == {i \in 1..Len(messages) :
                              i > from /\ messages[i].source = a}
        First(S) == CHOOSE i \in S : \A j \in S : i <= j
        ins == After("word_insight_json_agent", 0)
        bp == IF ins = {} THEN {}
              ELSE After("word_blueprint_json_agent", First(ins))
        wr == IF bp = {} THEN {} ELSE After("writer_agent", First(bp))
    IN
    IF ins = {} THEN Some("team_insight")
    ELSE IF bp = {} THEN Some("team_blueprint")
    ELSE IF wr = {} THEN Some("writer_agent")
    ELSE MetaGet(messages[Len(messages)].metadata, "select_agent")

selector_func_earliest_override(messages) ==
    LET names == agent_names(messages)
        carriers == {i \in 1..Len(messages) :
                        MetaGet(messages[i].metadata, "select_agent") # None}
        first == CHOOSE i \in carriers : \A j \in carriers : i <= j
    IN
    IF "word_insight_json_agent" \notin names
       THEN Some("team_insight")
    ELSE IF "word_blueprint_json_agent" \notin names
       THEN Some("team_blueprint")
    ELSE IF "writer_agent" \notin names
       THEN Some("writer_agent")
    ELSE IF carriers = {} THEN None
    ELSE MetaGet(messages[first].metadata, "select_agent")

selector_func_polish_anytime(messages) ==
    LET names == agent_names(messages)
        override == IF messages = <<>> THEN None
                    ELSE MetaGet(messages[Len(messages)].metadata, "select_agent")
    IN
    IF override \in {Some("refiner_agent"), Some("explainer_agent")}
       THEN override
    ELSE IF "word_insight_json_agent" \notin names
       THEN Some("team_insight")
    ELSE IF "word_blueprint_json_agent" \notin names
       THEN Some("team_blueprint")
    ELSE IF "writer_agent" \notin names
       THEN Some("writer_agent")
    ELSE override

selector_func_reads_last_first(messages) ==
    IF messages = <<>>
       THEN Some("IndexError")
       ELSE LET names == agent_names(messages)
                override == MetaGet(messages[Len(messages)].metadata, "select_agent")
            IN  IF "word_insight_json_agent" \notin names
                   THEN Some("team_insight")
                ELSE IF "word_blueprint_json_agent" \notin names
                   THEN Some("team_blueprint")
                ELSE IF "writer_agent" \notin names
                   THEN Some("writer_agent")
                ELSE override

selector_func(messages) ==
    LET names == agent_names(messages) IN
    IF "word_insight_json_agent" \notin names
       THEN Some("team_insight")
    ELSE IF /\ "word_insight_json_agent" \in names
            /\ "word_blueprint_json_agent" \notin names
       THEN Some("team_blueprint")
    ELSE IF /\ "word_insight_json_agent" \in names
            /\ "word_blueprint_json_agent" \in names
            /\ "writer_agent" \notin names
       THEN Some("writer_agent")
    ELSE MetaGet(messages[Len(messages)].metadata, "select_agent")

(***************************************************************************)
(* What the operator types and what the language model answers.            *)
(***************************************************************************)
Tasks == {"write report", "quit", "QUIT"}
LowerKeepsCase(s) == s
Lower(s) == IF s = "QUIT" THEN "quit" ELSE s

SelectInputs == {"", "1", " 2 ", "writer_agent", "team_insight", "foo"}

\* agent_map.get(key, default)
AgentMapGet(key, default) ==
    CASE key = "1" -> "refiner_agent"
      [] key = "2" -> "explainer_agent"
      [] OTHER -> default

BlueprintGood ==
    JMap([title |-> JStr("T"),
          sections |-> JList(<<JMap([subheading |-> JStr("S"),
                                     points |-> JList(<<JStr("p")>>)])>>),
          estimated_length |-> JStr("800-1200zi")])

\* the erroneous input of the blueprint JSON agent's first example
BlueprintBroken ==
    JMap([title |-> JStr("T"),
          sections |-> JList(<<JMap([subheading |-> JStr("S"),
                                     points |-> JList(<<JStr("p"), JNum("123")>>),
                                     description |-> JStr("d")]),
                               JStr("invalid_section")>>),
          estimated_length |-> JStr("invalid"),
          feedback |-> JStr("more")])

InsightGood ==
    JMap([existing_information |->
             JMap([document_type |-> JStr(" report "),
                   target_audience |-> JStr("board"),
                   writing_purpose |-> JStr("approval"),
                   style_requirement |-> JStr("formal"),
                   key_content |-> JList(<<JStr("k")>>)]),
          supplementary_questions |->
             JList(<<JMap([question |-> JStr("q"),
                           options |-> JList(<<>>),
                           reason |-> JStr("r"),
                           type |-> JStr("open")])>>)])

InsightBroken ==
    JMap([existing_information |->
             JMap([document_type |-> JStr("report"),
                   key_content |-> JList(<<JStr("k"), JNum("123")>>)]),
          supplementary_questions |->
             JList(<<JMap([question |-> JStr("q"),
                           options |-> JStr("invalid"),
                           type |-> JStr("yes_no")])>>)])

\* the free-text agents answer with any text; the pairs' content agents with
\* conformant JSON, malformed JSON, or nothing usable
ContentOutputs(agent) ==
    CASE agent = "word_insight_agent" -> {InsightGood, InsightBroken, JText("")}
      [] agent = "word_blueprint_agent" ->
            {BlueprintGood, BlueprintBroken, JText("notes")}
      [] OTHER -> {JText("text")}

(***************************************************************************)
(* The session: assistant_run driving final_team.                          *)
(***************************************************************************)
NoSub == [team |-> "", agent |-> "", result |-> <<>>, done |-> FALSE]

\* no payload under repair
NoRep == [stage |-> "none"]

Init ==
    /\ pc = "input"
    /\ rep = NoRep
    /\ log = <<>>
    /\ decision = None
    /\ error = "none"
    /\ speaker = ""
    /\ sub = NoSub
    /\ rr = [t \in Teams |-> 0]
    /\ dispatched = <<>>
    /\ nTasks = 0
    /\ log2 = <<>>
    /\ decision2 = None

\* the messages a participant has not seen yet: those after its own last one
ParticipantSources(p) ==
    IF p \in Teams THEN {TeamAgents(p)[1], TeamAgents(p)[2]} ELSE {p}

Buffer(p) ==
    LET own == {i \in 1..Len(log) : log[i].source \in ParticipantSources(p)}
        from == IF own = {} THEN 1
                ELSE (CHOOSE i \in own : \A j \in own : j <= i) + 1
    IN  SubSeq(log, from, Len(log))

\* after new messages reach final_team's thread: stop the run or select again
AfterDelta(delta) == IF SourceMatch(delta, FinalSources) THEN "save" ELSE "select"

\* task = input(...); select_input = input(...); quit ends the loop
Quit(task, select_input) ==
    /\ pc = "input"
    /\ Lower(task) = "quit"
    /\ pc' = "exit"
    /\ UNCHANGED <<log, decision, error, speaker, sub, rr, dispatched, nTasks,
                   log2, decision2, rep>>

SubmitFreshThread(task, select_input, bound) ==
    /\ pc = "input"
    /\ nTasks < bound
    /\ Lower(task) # "quit"
    /\ LET select_agent == AgentMapGet(Strip(select_input), Strip(select_input))
           metadata == {<<"select_agent", select_agent>>}
           msg == Message("user", JText(task \o "/no_think"), metadata)
       IN  /\ log' = <<msg>>
           /\ pc' = AfterDelta(<<msg>>)
    /\ nTasks' = nTasks + 1
    /\ UNCHANGED <<decision, error, speaker, sub, rr, dispatched, log2, decision2, rep>>

\* final_team.run_stream(task = TextMessage(task + "/no_think", "user", metadata))
SubmitUpTo(task, select_input, bound) ==
    /\ pc = "input"
    /\ nTasks < bound
    /\ Lower(task) # "quit"
    /\ LET select_agent == AgentMapGet(Strip(select_input), Strip(select_input))
           metadata == {<<"select_agent", select_agent>>}
           msg == Message("user", JText(task \o "/no_think"), metadata)
       IN  /\ log' = Append(log, msg)
           /\ pc' = AfterDelta(<<msg>>)
    /\ nTasks' = nTasks + 1
    /\ UNCHANGED <<decision, error, speaker, sub, rr, dispatched, log2, decision2, rep>>

Submit(task, select_input) == SubmitUpTo(task, select_input, MaxTasks)

\* the model picks among the participants other than the previous speaker
Candidates ==
    IF dispatched = <<>> THEN RosterNames
    ELSE RosterNames \ {dispatched[Len(dispatched)]}

Dispatch(p) ==
    /\ speaker' = p
    /\ dispatched' = Append(dispatched, p)
    /\ pc' = IF p \in Teams THEN "team_start" ELSE "agent_call"
    /\ error' = error

\* SelectorGroupChat: selector_func first, the model only when it returns None
SelectSpeaker ==
    /\ pc = "select"
    /\ LET d == selector_func(log) IN
       /\ decision' = d
       /\ IF d = None
             THEN \E p \in Candidates : Dispatch(p)
          ELSE IF ~IsParticipant(d[1])
             THEN /\ pc' = "crashed"
                  /\ error' = "config"
                  /\ UNCHANGED <<speaker, dispatched>>
          ELSE Dispatch(d[1])
    /\ UNCHANGED <<log, sub, rr, nTasks, log2, decision2, rep>>

\* a single agent answers; its message joins the thread
AgentReply(out) ==
    /\ pc = "agent_call"
    /\ out \in ContentOutputs(speaker)
    /\ LET msg == Message(speaker, out, {})
       IN  /\ log' = Append(log, msg)
           /\ pc' = AfterDelta(<<msg>>)
    /\ UNCHANGED <<decision, error, speaker, sub, rr, dispatched, nTasks,
                   log2, decision2, rep>>

\* the model call of the agent in flight fails; nothing catches it
InferenceFail ==
    /\ pc \in {"agent_call", "team_call"}
    /\ pc' = "crashed"
    /\ error' = "inference"
    /\ UNCHANGED <<log, decision, speaker, sub, rr, dispatched, nTasks,
                   log2, decision2, rep>>

RoundRobinStuck(i, n) == i

\* RoundRobinGroupChat: the next speaker index
RoundRobinNext(i, n) == (i + 1) % n

\* the pair starts on the buffered messages: termination check, first speaker
TeamStart ==
    /\ pc = "team_start"
    /\ IF SourceMatch(Buffer(speaker), TeamSources(speaker))
          THEN /\ sub' = [team |-> speaker, agent |-> "", result |-> <<>>,
                          done |-> TRUE]
               /\ pc' = AfterDelta(<<>>)
               /\ rr' = rr
          ELSE /\ sub' = [team |-> speaker,
                          agent |-> TeamAgents(speaker)[rr[speaker] + 1],
                          result |-> <<>>, done |-> FALSE]
               /\ pc' = "team_call"
               /\ rr' = [rr EXCEPT ![speaker] = RoundRobinNext(@, 2)]
    /\ UNCHANGED <<log, decision, error, speaker, dispatched, nTasks,
                   log2, decision2, rep>>

TeamAfterReplyEager(msg) ==
    LET result == Append(sub.result, msg) IN
    /\ log' = Append(log, msg)
    /\ IF SourceMatch(<<msg>>, TeamSources(sub.team))
          THEN /\ sub' = [sub EXCEPT !.result = result, !.agent = "", !.done = TRUE]
               /\ pc' = AfterDelta(result)
               /\ rr' = rr
               /\ error' = error
          ELSE /\ sub' = [sub EXCEPT !.result = result,
                                     !.agent = TeamAgents(sub.team)[rr[sub.team] + 1]]
               /\ rr' = [rr EXCEPT ![sub.team] = RoundRobinNext(@, 2)]
               /\ UNCHANGED <<pc, error>>

\* a message of the pair: termination check, then either the pair's result
\* joins final_team's thread or the next agent of the pair speaks
TeamAfterReply(msg) ==
    LET result == Append(sub.result, msg) IN
    IF SourceMatch(<<msg>>, TeamSources(sub.team))
       THEN /\ sub' = [sub EXCEPT !.result = result, !.agent = "", !.done = TRUE]
            /\ log' = log \o result
            /\ pc' = AfterDelta(result)
            /\ rr' = rr
            /\ error' = error
       ELSE /\ sub' = [sub EXCEPT !.result = result,
                                  !.agent = TeamAgents(sub.team)[rr[sub.team] + 1]]
            /\ rr' = [rr EXCEPT ![sub.team] = RoundRobinNext(@, 2)]
            /\ UNCHANGED <<log, pc, error>>

\* the content agent of a pair answers in free form
ContentReply(out) ==
    /\ pc = "team_call"
    /\ OutputContentType(sub.agent) = None
    /\ out \in ContentOutputs(sub.agent)
    /\ TeamAfterReply(Message(sub.agent, out, {}))
    /\ UNCHANGED <<decision, speaker, dispatched, nTasks, log2, decision2, rep>>

\* what the JSON agent is given to check: the latest message before its turn
Candidate ==
    IF sub.result # <<>> THEN sub.result[Len(sub.result)].content
    ELSE IF Buffer(sub.team) # <<>>
       THEN Buffer(sub.team)[Len(Buffer(sub.team))].content
    ELSE JText("")

\* the JSON agent answers as its system message says; the answer becomes a
\* StructuredMessage only if it parses as the output_content_type
RepairReply(mode) ==
    /\ pc = "team_call"
    /\ OutputContentType(sub.agent) # None
    /\ LET T == OutputContentType(sub.agent)[1]
           raw == Repair(Candidate, "", T, mode)
       IN  IF Validates(raw, T)
              THEN TeamAfterReply(Message(sub.agent, Instance(raw, T), {}))
              ELSE /\ pc' = "crashed"
                   /\ error' = "validation"
                   /\ UNCHANGED <<log, sub, rr>>
    /\ UNCHANGED <<decision, speaker, dispatched, nTasks, log2, decision2, rep>>

\* await final_team.save_state(): the returned state is not kept
SaveState ==
    /\ pc = "save"
    /\ pc' = "input"
    /\ UNCHANGED <<log, decision, error, speaker, sub, rr, dispatched, nTasks,
                   log2, decision2, rep>>

Next ==
    \/ \E task \in Tasks, select_input \in SelectInputs : Quit(task, select_input)
    \/ \E task \in Tasks, select_input \in SelectInputs : Submit(task, select_input)
    \/ SelectSpeaker
    \/ \E out \in ContentOutputs(speaker) : AgentReply(out)
    \/ InferenceFail
    \/ TeamStart
    \/ \E out \in ContentOutputs(sub.agent) : ContentReply(out)
    \/ \E mode \in RepairModes : RepairReply(mode)
    \/ SaveState

Spec == Init /\ [][Next]_vars

(***************************************************************************)
(* selector_func on arbitrary message sequences: two sequences, the second *)
(* a rearrangement of the first, each given to selector_func once.         *)
(***************************************************************************)
SelMetas ==
    {{}, {<<"select_agent", "refiner_agent">>},
     {<<"select_agent", "explainer_agent">>}, {<<"select_agent", "foo">>}}

SelTurns ==
    {Message("user", JText("m"), {<<"select_agent", a>>}) :
        a \in {"refiner_agent", "foo"}}
       \cup {Message(src, JText("m"), {}) :
                src \in {"", "word_insight_json_agent",
                         "word_blueprint_json_agent", "writer_agent"}}

SelLogs == UNION {[1..n -> SelTurns] : n \in 0..MaxLogLen}

Variants(l) ==
    {[i \in 1..Len(l) |-> l[Len(l) + 1 - i]]}
       \cup {[l EXCEPT ![i] = l[i + 1], ![i + 1] = l[i]] : i \in 1..(Len(l) - 1)}
       \cup {<<l[i]>> \o l : i \in 1..Len(l)}
       \cup {[l EXCEPT ![i].metadata = md] : i \in 1..Len(l), md \in SelMetas}

SelInit ==
    /\ pc = "sel"
    /\ rep = NoRep
    /\ log \in SelLogs
    /\ log2 \in Variants(log)
    /\ decision = None
    /\ decision2 = None
    /\ error = "none"
    /\ speaker = ""
    /\ sub = NoSub
    /\ rr = [t \in Teams |-> 0]
    /\ dispatched = <<>>
    /\ nTasks = 0

SelCall ==
    /\ pc = "sel"
    /\ decision' = selector_func(log)
    /\ decision2' = selector_func(log2)
    /\ pc' = "sel_done"
    /\ UNCHANGED <<log, log2, error, speaker, sub, rr, dispatched, nTasks, rep>>

SelNext == SelCall

SpecSel == SelInit /\ [][SelNext]_vars

(***************************************************************************)
(* Properties of the router.                                               *)
(***************************************************************************)
Spoke(l, a) == \E i \in 1..Len(l) : l[i].source = a

PipelineDone(l) ==
    /\ Spoke(l, "word_insight_json_agent")
    /\ Spoke(l, "word_blueprint_json_agent")
    /\ Spoke(l, "writer_agent")

IdentitySet(l) == {l[i].source : i \in 1..Len(l)} \ {""}

Override(l) ==
    IF l = <<>> THEN None ELSE MetaGet(l[Len(l)].metadata, "select_agent")

ExpectedDecision(l) ==
    IF ~Spoke(l, "word_insight_json_agent") THEN Some("team_insight")
    ELSE IF ~Spoke(l, "word_blueprint_json_agent") THEN Some("team_blueprint")
    ELSE IF ~Spoke(l, "writer_agent") THEN Some("writer_agent")
    ELSE Override(l)

\* C1: selector_func returns team_insight while word_insight_json_agent has
\* not spoken, then team_blueprint while word_blueprint_json_agent has not,
\* then writer_agent while writer_agent has not, and after all three the
\* select_agent entry of the most recent message, None when it has none.
C1_PipelineOrdering ==
    pc = "sel_done" =>
       /\ decision = ExpectedDecision(log)
       /\ decision2 = ExpectedDecision(log2)

C1_Witness ==
    /\ pc = "sel_done"
    /\ PipelineDone(log)
    /\ decision = Some("refiner_agent")
    /\ PipelineDone(log2)
    /\ decision2 = None

\* C7: the decision depends only on the set of sources in the log and on the
\* select_agent entry of the latest message: two logs that agree on both get
\* the same decision, and a call changes nothing but the returned value.
C7_RouterDeterminism ==
    /\ [](pc = "sel_done" =>
            ((IdentitySet(log) = IdentitySet(log2) /\ Override(log) = Override(log2))
                => decision = decision2))
    /\ [][pc = "sel" =>
            UNCHANGED <<log, log2, error, speaker, sub, rr, dispatched, nTasks>>]_vars

C7_Witness ==
    /\ pc = "sel_done"
    /\ log # log2
    /\ Len(log) # Len(log2)
    /\ IdentitySet(log) = IdentitySet(log2)
    /\ Override(log) = Override(log2)
    /\ PipelineDone(log)
    /\ decision = Some("refiner_agent")
    /\ decision2 = decision

\* C8: while one of the three pipeline identities has not spoken, the
\* decision is the pipeline stage whatever select_agent the latest message
\* carries: logs with the same sources and different overrides agree.
C8_OverrideIgnoredInPipeline ==
    (/\ pc = "sel_done"
     /\ IdentitySet(log) = IdentitySet(log2)
     /\ ~PipelineDone(log))
       => /\ decision = decision2
          /\ decision \in {Some("team_insight"), Some("team_blueprint"),
                           Some("writer_agent")}

C8_Witness ==
    /\ pc = "sel_done"
    /\ IdentitySet(log) = IdentitySet(log2)
    /\ ~PipelineDone(log)
    /\ Override(log) = Some("foo")
    /\ Override(log2) = Some("refiner_agent")
    /\ decision = Some("writer_agent")
    /\ decision2 = Some("writer_agent")

(***************************************************************************)
(* The session with every model call returning: it answers or it fails.    *)
(***************************************************************************)
TeamStep ==
    \/ TeamStart
    \/ \E out \in ContentOutputs(sub.agent) : ContentReply(out)
    \/ \E mode \in RepairModes : RepairReply(mode)
    \/ InferenceFail

LiveSelectInputs == {"1", "team_insight"}

LiveNext ==
    \/ \E task \in Tasks, select_input \in LiveSelectInputs :
          Quit(task, select_input)
    \/ \E task \in Tasks, select_input \in LiveSelectInputs :
          SubmitUpTo(task, select_input, MaxLiveTasks)
    \/ SelectSpeaker
    \/ \E out \in ContentOutputs(speaker) : AgentReply(out)
    \/ TeamStep
    \/ SaveState

FairSpec == Init /\ [][LiveNext]_vars /\ WF_vars(TeamStep)

(***************************************************************************)
(* Properties of the session and of the pairs.                             *)
(***************************************************************************)
IsPrefix(s, t) == Len(s) <= Len(t) /\ \A i \in 1..Len(s) : s[i] = t[i]

Pipeline == <<"team_insight", "team_blueprint", "writer_agent">>

PipelineRuns ==
    SelectSeq(dispatched, LAMBDA p : p \in {"team_insight", "team_blueprint",
                                             "writer_agent"})

PairOf(agent) ==
    IF agent \in {"word_insight_agent", "word_insight_json_agent"}
       THEN "team_insight" ELSE "team_blueprint"

SchemaOf(team) ==
    IF team = "team_insight" THEN WordInsightAnalysis ELSE WordBlueprintStructure

PairAgents ==
    {"word_insight_agent", "word_insight_json_agent", "word_blueprint_agent",
     "word_blueprint_json_agent"}

RepairAgents == {"word_insight_json_agent", "word_blueprint_json_agent"}

\* C2 (as claimed): the intake pair, the planning pair and the drafting agent
\* are each dispatched once, in this order, and never again afterwards,
\* whatever the operator enters at the selection prompt.
C2_PipelineRunsOnce == IsPrefix(PipelineRuns, Pipeline)

\* C3: when a pair's run has ended, its last message comes from the pair's
\* JSON agent and its content is an instance of the pair's model, whatever
\* the content agent answered.
C3_TerminalTurnConforms ==
    sub.done =>
       /\ sub.result # <<>>
       /\ LET last == sub.result[Len(sub.result)] IN
          /\ last.source = TeamAgents(sub.team)[2]
          /\ Conforms(last.content, SchemaOf(sub.team))

C3_Witness ==
    /\ sub.done
    /\ sub.team = "team_blueprint"
    /\ Len(sub.result) = 2
    /\ sub.result[1].content = BlueprintBroken
    /\ Conforms(sub.result[2].content, WordBlueprintStructure)
    /\ \E i \in 1..Len(log) :
          log[i].source = "word_insight_agent" /\ log[i].content = JText("")

\* C4 (as claimed): every message a pair has put into final_team's thread,
\* the content agent's included, is an instance of the pair's model.
C4_EveryPairTurnConforms ==
    \A i \in 1..Len(log) :
       log[i].source \in PairAgents =>
          Conforms(log[i].content, SchemaOf(PairOf(log[i].source)))

\* C4 (amended): every message of a pair's JSON agent in final_team's thread
\* is an instance of the pair's model; the content agent's message, which the
\* pair also puts into the thread, need not be.
C4_RepairTurnsConform ==
    \A i \in 1..Len(log) :
       log[i].source \in RepairAgents =>
          Conforms(log[i].content, SchemaOf(PairOf(log[i].source)))

C4_Witness ==
    \E i \in 1..Len(log) :
       /\ i < Len(log)
       /\ log[i].source = "word_insight_agent"
       /\ ~Conforms(log[i].content, WordInsightAnalysis)
       /\ log[i + 1].source = "word_insight_json_agent"
       /\ Conforms(log[i + 1].content, WordInsightAnalysis)
       /\ log[i + 1].content # AllDefaults(WordInsightAnalysis)

\* C5: a pair's run dispatches the content agent, then the JSON agent, and
\* ends there: its messages are always a prefix of (content, JSON), the run
\* is over exactly when the JSON agent's message is in, and these two
\* messages, in this order, are what the run adds to final_team's thread.
C5_StrictAlternation ==
    sub.team # "" =>
       /\ IsPrefix(Sources(sub.result), TeamAgents(sub.team))
       /\ sub.done <=> Sources(sub.result) = TeamAgents(sub.team)
       /\ (~sub.done /\ pc = "team_call") =>
             sub.agent = TeamAgents(sub.team)[Len(sub.result) + 1]
       /\ (sub.done /\ pc = "save" /\ speaker = sub.team) =>
             /\ Len(log) >= 3
             /\ SubSeq(log, Len(log) - 1, Len(log)) = sub.result
             /\ log[Len(log) - 2].source = "user"

C5_Witness ==
    /\ sub.done
    /\ pc = "save"
    /\ speaker = "team_insight"
    /\ Len(dispatched) = 4
    /\ Sources(sub.result) = <<"word_insight_agent", "word_insight_json_agent">>

\* C6: a pair's run that has started always ends; the JSON agent's answer is
\* never rejected by its output model, and when the content agent gave
\* nothing that parses the JSON agent answers with the all-defaults object
\* and the run ends as any other.
C6_PairTerminates ==
    /\ (pc \in {"team_start", "team_call"}) ~> (pc \notin {"team_start", "team_call"})
    /\ [](error # "validation")
    /\ [](( /\ sub.done
            /\ Len(sub.result) = 2
            /\ sub.result[1].content.k = "text")
             => sub.result[2].content = AllDefaults(SchemaOf(sub.team)))

C6_Witness ==
    /\ sub.done
    /\ pc = "save"
    /\ sub.team = "team_insight"
    /\ sub.result[1].content = JText("")
    /\ sub.result[2].content = AllDefaults(WordInsightAnalysis)

\* C9 (as claimed): once the pipeline has completed, a task submitted without
\* an override gets the decision None, and the session neither dispatches a
\* participant for it nor ends: it waits for a decision.
C9_UndecidedPauses ==
    (/\ pc \notin {"input", "select", "exit"}
     /\ log # <<>>
     /\ log[Len(log)].source = "user"
     /\ PipelineDone(log)
     /\ Override(log) \in {None, Some("")})
       => /\ decision = None
          /\ error = "none"
          /\ Len(dispatched) < nTasks

\* C10: once the pipeline has completed, a select_agent that names no
\* participant of final_team ends the step in a configuration error: no
\* participant is dispatched and the thread is left as it was.
C10_MalformedOverride ==
    [][(/\ pc = "select"
        /\ PipelineDone(log)
        /\ Override(log) # None
        /\ Override(log)[1] \notin RosterNames)
          => /\ pc' = "crashed"
             /\ error' = "config"
             /\ log' = log
             /\ dispatched' = dispatched
             /\ speaker' = speaker]_vars

C10_Witness ==
    /\ pc = "crashed"
    /\ error = "config"
    /\ PipelineDone(log)
    /\ Override(log) = Some("foo")
    /\ log[Len(log)].source = "user"
    /\ dispatched = Pipeline

UserTurns(l) == Len(SelectSeq(l, LAMBDA m : m.source = "user"))

\* C11: when the model call of a dispatched participant fails, the thread
\* holds no message of that attempt: it still ends with the submitted task,
\* also when a pair's content agent had already answered and its JSON agent
\* is the one that fails.
C11_FailedAttemptAppendsNothing ==
    error = "inference" =>
       /\ log # <<>>
       /\ log[Len(log)].source = "user"
       /\ UserTurns(log) = nTasks
       /\ Len(dispatched) = nTasks

C11_Witness ==
    /\ pc = "crashed"
    /\ error = "inference"
    /\ speaker = "team_blueprint"
    /\ sub.team = speaker
    /\ ~sub.done
    /\ Sources(sub.result) = <<"word_blueprint_agent">>
    /\ sub.agent = "word_blueprint_json_agent"
    /\ log[Len(log)].source = "user"

(***************************************************************************)
(* Ctrl-C.  The whole loop body of assistant_run sits in the try block; an *)
(* interrupt at a prompt or during the awaited run ends the loop without   *)
(* reaching save_state.  An awaited model call that is cancelled returns   *)
(* no response, so the participant in flight publishes no message, and a   *)
(* pair's collected messages stay inside the cancelled pair.               *)
(***************************************************************************)
InFlight == pc \in {"agent_call", "team_start", "team_call"}

KeyboardInterruptPartial ==
    /\ pc \in {"input", "select", "agent_call", "team_start", "team_call", "save"}
    /\ pc' = "exit"
    /\ error' = "interrupt"
    /\ log' = IF InFlight
                 THEN Append(log, Message(IF sub.team = speaker /\ sub.agent # ""
                                             THEN sub.agent ELSE speaker,
                                          JText(""), {}))
                 ELSE log
    /\ UNCHANGED <<decision, speaker, sub, rr, dispatched, nTasks,
                   log2, decision2, rep>>

KeyboardInterrupt ==
    /\ pc \in {"input", "select", "agent_call", "team_start", "team_call", "save"}
    /\ pc' = "exit"
    /\ error' = "interrupt"
    /\ UNCHANGED <<log, decision, speaker, sub, rr, dispatched, nTasks,
                   log2, decision2, rep>>

CancelNext ==
    \/ LiveNext
    \/ KeyboardInterrupt

CancelSpec == Init /\ [][CancelNext]_vars

\* C12: a KeyboardInterrupt that arrives while a participant call is in
\* flight ends the call and the loop, and the thread is left as it was: no
\* message, partial or complete, of the interrupted call is appended.
C12_InterruptLeavesLog ==
    [][(InFlight /\ error' = "interrupt")
          => /\ pc' = "exit"
             /\ log' = log
             /\ log'[Len(log')].source = "user"]_vars

C12_Witness ==
    /\ pc = "exit"
    /\ error = "interrupt"
    /\ speaker = "team_insight"
    /\ sub.team = speaker
    /\ ~sub.done
    /\ sub.agent = "word_insight_json_agent"
    /\ Sources(sub.result) = <<"word_insight_agent">>
    /\ log[Len(log)].source = "user"
    /\ Len(dispatched) = nTasks

\* C13: the thread of final_team only grows: in every step (a submitted
\* task, the result of a pair, the answer of a single agent, a run directed
\* by select_agent, a failure, save_state) the thread before the step is a
\* prefix of the thread after it.
C13_LogAppendOnly == [][IsPrefix(log, log')]_vars

C13_Witness ==
    /\ pc = "save"
    /\ nTasks = 4
    /\ Sources(log) = <<"user", "word_insight_agent", "word_insight_json_agent",
                        "user", "word_blueprint_agent", "word_blueprint_json_agent",
                        "user", "writer_agent",
                        "user", "refiner_agent">>

\* the messages of the current run: those after the last submitted task
RunTail(l) ==
    LET users == {i \in 1..Len(l) : l[i].source = "user"}
        last == CHOOSE i \in users : \A j \in users : j <= i
    IN  IF users = {} THEN l ELSE SubSeq(l, last + 1, Len(l))

\* the source of the last message a participant contributes
FinalProducers(p) == IF p \in Teams THEN TeamSources(p) ELSE {p}

custom_message_types_insight_only == {"StructuredMessage[WordInsightAnalysis]"}

custom_message_types ==
    {"StructuredMessage[WordInsightAnalysis]",
     "StructuredMessage[WordBlueprintStructure]"}

\* the message class an agent's answer is wrapped in
MessageType(agent) ==
    CASE agent = "word_insight_json_agent" -> "StructuredMessage[WordInsightAnalysis]"
      [] agent = "word_blueprint_json_agent" -> "StructuredMessage[WordBlueprintStructure]"
      [] OTHER -> "TextMessage"

ContentTypeOf(type) ==
    IF type = "StructuredMessage[WordInsightAnalysis]"
       THEN WordInsightAnalysis
       ELSE WordBlueprintStructure

dump(m) ==
    [type |-> MessageType(m.source),
     source |-> m.source,
     content |-> m.content,
     metadata |-> [k \in {p[1] : p \in m.metadata} |->
                     (CHOOSE p \in m.metadata : p[1] = k)[2]]]

load(d) ==
    LET metadata == {<<k, d.metadata[k]>> : k \in DOMAIN d.metadata} IN
    IF d.type = "TextMessage"
       THEN Some(Message(d.source, d.content, metadata))
    ELSE IF d.type \notin custom_message_types
       THEN None
    ELSE IF ~Validates(d.content, ContentTypeOf(d.type))
       THEN None
    ELSE Some(Message(d.source, Instance(d.content, ContentTypeOf(d.type)),
                      metadata))

save_state(thread, previous) ==
    [message_thread |-> [i \in 1..Len(thread) |-> dump(thread[i])],
     previous_speaker |-> previous]

load_state(state) ==
    IF \E i \in 1..Len(state.message_thread) : load(state.message_thread[i]) = None
       THEN None
       ELSE Some([message_thread |->
                     [i \in 1..Len(state.message_thread) |->
                         load(state.message_thread[i])[1]],
                  previous_speaker |-> state.previous_speaker])

PreviousSpeaker ==
    IF dispatched = <<>> THEN None ELSE Some(dispatched[Len(dispatched)])

NextTask(select_input) ==
    Message("user", JText("write report/no_think"),
            {<<"select_agent", AgentMapGet(Strip(select_input), Strip(select_input))>>})

Absent == [k |-> "absent"]

\* a JSON object holding the fields that are not left out
MapOf(fs) == JMap([n \in {m \in DOMAIN fs : fs[m] # Absent} |-> fs[n]])

SectionGood == JMap([subheading |-> JStr("S"), points |-> JList(<<JStr("p")>>)])

SectionBroken ==
    JMap([subheading |-> JNum("1"),
          points |-> JList(<<JStr(" report "), JNum("123")>>),
          description |-> JNum("2"),
          feedback |-> JStr("more")])

TitleValues == {Absent, JStr("X"), JStr(" report "), JNum("7"), JNull}

SectionsValues ==
    {Absent, JList(<<>>), JList(<<SectionGood>>),
     JList(<<SectionBroken, JStr("invalid_section")>>),
     JList(<<JMap([points |-> JStr("invalid")]), SectionGood>>),
     JStr("invalid"), JNull}

LengthValues ==
    {Absent, JStr("800-1200zi"), JStr("500-1000zi"), JStr("invalid"),
     JNum("7"), JList(<<>>)}

ExtraValues == {Absent, JStr("more")}

QuestionGood ==
    JMap([question |-> JStr("q"), options |-> JList(<<JStr("a"), JStr("b")>>),
          reason |-> JStr("r"), type |-> JStr("single_choice")])

QuestionBroken ==
    JMap([question |-> JStr(" report "), options |-> JList(<<JStr("a"), JNum("123")>>),
          type |-> JStr("yes_no")])

ExistingValues ==
    {Absent, InsightGood.f.existing_information,
     InsightBroken.f.existing_information,
     JMap([key_content |-> JStr("invalid"), document_type |-> JNum("7")]),
     JStr("invalid"), JList(<<>>), JNull}

QuestionsValues ==
    {Absent, JList(<<>>), JList(<<QuestionGood>>),
     JList(<<QuestionBroken, JNum("7"), QuestionGood>>),
     InsightBroken.f.supplementary_questions,
     JMap([question |-> JStr("q")]), JStr("invalid")}

NonObjects ==
    {JText(""), JText("notes"), JStr("X"), JNum("7"), JNull, JList(<<>>),
     JList(<<JStr("X")>>)}

RawPayloads(T) ==
    IF T = WordBlueprintStructure
       THEN {MapOf([title |-> t, sections |-> s, estimated_length |-> e,
                    feedback |-> x]) :
                t \in TitleValues, s \in SectionsValues, e \in LengthValues,
                x \in ExtraValues}
            \cup {BlueprintGood, BlueprintBroken} \cup NonObjects
       ELSE {MapOf([existing_information |-> e, supplementary_questions |-> q,
                    feedback |-> x]) :
                e \in ExistingValues, q \in QuestionsValues, x \in ExtraValues}
            \cup {InsightGood, InsightBroken} \cup NonObjects

RepInit ==
    /\ pc = "repair"
    /\ \E T \in {WordInsightAnalysis, WordBlueprintStructure} :
          \E raw \in RawPayloads(T) :
             rep = [stage |-> "raw", schema |-> T, raw |-> raw,
                    once |-> JNull, twice |-> JNull]
    /\ log = <<>>
    /\ log2 = <<>>
    /\ decision = None
    /\ decision2 = None
    /\ error = "none"
    /\ speaker = ""
    /\ sub = NoSub
    /\ rr = [t \in Teams |-> 0]
    /\ dispatched = <<>>
    /\ nTasks = 0

\* the JSON agent applies its rules to the payload it is given
RepairOnce(mode) ==
    /\ pc = "repair"
    /\ rep.stage = "raw"
    /\ rep' = [rep EXCEPT !.stage = "once",
                          !.once = Repair(rep.raw, "", rep.schema, mode)]
    /\ UNCHANGED <<pc, log, decision, error, speaker, sub, rr, dispatched,
                   nTasks, log2, decision2>>

\* the rules applied to their own output
RepairTwice(mode) ==
    /\ pc = "repair"
    /\ rep.stage = "once"
    /\ rep' = [rep EXCEPT !.stage = "twice",
                          !.twice = Repair(rep.once, "", rep.schema, mode)]
    /\ UNCHANGED <<pc, log, decision, error, speaker, sub, rr, dispatched,
                   nTasks, log2, decision2>>

RepNext ==
    \/ \E mode \in RepairModes : RepairOnce(mode)
    \/ \E mode \in RepairModes : RepairTwice(mode)

SpecRepair == RepInit /\ [][RepNext]_vars

Repaired == rep.stage \in {"once", "twice"}

\* C16: for every raw payload (fields left out, values of the wrong type,
\* a type tag outside the Literal, content that is no JSON object) and both
\* models, the repair rules give a value that is an instance of the model:
\* exactly its fields, each of its type, accepted by the model's validation.
C16_RepairTotalConformant ==
    Repaired =>
       /\ rep.once.k = "map"
       /\ Validates(rep.once, rep.schema)
       /\ Conforms(rep.once, rep.schema)
       /\ Instance(rep.once, rep.schema) = rep.once

C16_Witness ==
    /\ rep.stage = "once"
    /\ rep.schema = WordInsightAnalysis
    /\ rep.raw = InsightBroken
    /\ ~Validates(rep.raw, rep.schema)
    /\ Conforms(rep.once, rep.schema)

\* C17: the repair rules applied to their own output change nothing:
\* repairing a repaired payload gives the repaired payload, whichever
\* reading of the conversion rule is used either time.
C17_RepairIdempotent == rep.stage = "twice" => rep.twice = rep.once

C17_Witness ==
    /\ rep.stage = "twice"
    /\ rep.schema = WordBlueprintStructure
    /\ rep.raw = BlueprintBroken
    /\ rep.once # rep.raw
    /\ rep.once.f.sections.items[1].f.points.items = <<JStr("p"), JStr("123")>>
    /\ rep.twice = rep.once

TitleOnly == JMap([title |-> JStr("X")])

\* C18: a required field that is left out gets its documented default and a
\* field that is present and well-formed is kept: the payload holding only
\* the title X, repaired as a WordBlueprintStructure, is exactly title X,
\* sections [] and estimated_length "500-1000zi", and nothing else.
C18_MissingFieldsDefaulted ==
    (Repaired /\ rep.raw.k = "map") =>
       /\ \A n \in FieldNames(rep.schema) \ DOMAIN rep.raw.f :
             rep.once.f[n] = DocumentedDefault(n, FieldOf(rep.schema, n).ty)
       /\ ("title" \in DOMAIN rep.raw.f /\ rep.raw.f.title.k = "str") =>
             rep.once.f.title = JStr(Strip(rep.raw.f.title.s))
       /\ (rep.schema = WordBlueprintStructure /\ rep.raw = TitleOnly) =>
             /\ DOMAIN rep.once.f = {"title", "sections", "estimated_length"}
             /\ rep.once = JMap([title |-> JStr("X"),
                                 sections |-> JList(<<>>),
                                 estimated_length |-> JStr("500-1000zi")])

C18_Witness ==
    /\ rep.stage = "once"
    /\ rep.schema = WordBlueprintStructure
    /\ rep.raw = TitleOnly
    /\ rep.once.f.title = JStr("X")
    /\ rep.once.f.sections = JList(<<>>)

\* the position of the first message of a source, 0 when it has none
FirstTurn(l, a) ==
    IF Spoke(l, a)
       THEN CHOOSE i \in 1..Len(l) :
               l[i].source = a /\ \A j \in 1..(i - 1) : l[j].source # a
       ELSE 0

OutOfOrder(l) ==
    /\ Spoke(l, "word_insight_json_agent")
    /\ Spoke(l, "word_blueprint_json_agent")
    /\ FirstTurn(l, "word_blueprint_json_agent") < FirstTurn(l, "word_insight_json_agent")

\* C19: the selector looks at which sources have spoken, never at their
\* order: two logs whose messages come in a different order but from the
\* same sources, with the same select_agent on the latest message, get the
\* same decision.  A log in which word_blueprint_json_agent has spoken and
\* word_insight_json_agent has not gets team_insight; a log in which the
\* blueprint came first and the insight after it gets writer_agent (while
\* writer_agent has not spoken), so team_blueprint is not selected again.
C19_MembershipNotOrder ==
    pc = "sel_done" =>
       /\ (/\ Sources(log) # Sources(log2)
           /\ IdentitySet(log) = IdentitySet(log2)
           /\ Override(log) = Override(log2)) => decision = decision2
       /\ (/\ Spoke(log, "word_blueprint_json_agent")
           /\ ~Spoke(log, "word_insight_json_agent")) => decision = Some("team_insight")
       /\ (OutOfOrder(log) /\ ~Spoke(log, "writer_agent"))
             => decision = Some("writer_agent")
       /\ (OutOfOrder(log2) /\ ~Spoke(log2, "writer_agent"))
             => decision2 = Some("writer_agent")

C19_Witness ==
    /\ pc = "sel_done"
    /\ OutOfOrder(log)
    /\ ~OutOfOrder(log2)
    /\ ~Spoke(log, "writer_agent")
    /\ IdentitySet(log) = IdentitySet(log2)
    /\ Override(log) = Override(log2)
    /\ decision = Some("writer_agent")
    /\ decision2 = Some("writer_agent")

\* the thread is still the one the selector was called on
DecisionOnLog ==
    /\ pc \in {"agent_call", "team_start", "team_call", "crashed"}
    /\ RunTail(log) = <<>>

EarlierOverrides(l) ==
    {MetaGet(l[i].metadata, "select_agent") : i \in 1..(Len(l) - 1)} \ {None}

\* C20: once the three pipeline identities have spoken, the decision is the
\* select_agent of the latest message and of no other: replacing the
\* select_agent of any earlier message, those typed and ignored during the
\* pipeline stages included, leaves the decision as it is.
C20_LatestOverrideOnly ==
    (DecisionOnLog /\ PipelineDone(log)) =>
       /\ decision = Override(log)
       /\ decision = MetaGet(log[Len(log)].metadata, "select_agent")
       /\ \A i \in {j \in 1..(Len(log) - 1) : log[j].source = "user"} :
             \A a \in {"explainer_agent", "foo"} :
                selector_func([log EXCEPT ![i].metadata = {<<"select_agent", a>>}])
                   = decision

C20_Witness ==
    /\ DecisionOnLog
    /\ PipelineDone(log)
    /\ nTasks = 4
    /\ MetaGet(log[1].metadata, "select_agent") = Some("refiner_agent")
    /\ EarlierOverrides(log) = {Some("refiner_agent")}
    /\ Override(log) = Some("team_insight")
    /\ decision = Some("team_insight")
    /\ speaker = "team_insight"

\* the select_agent values carried by the submitted tasks of the thread
TaskOverrides(l) ==
    {MetaGet(l[i].metadata, "select_agent") :
        i \in {j \in 1..Len(l) : l[j].source = "user"}}

\* C21 (as claimed): Enter at the selection prompt submits a task that
\* carries no select_agent, so a stage-4 decision for it is None and names
\* no participant; "1" gives refiner_agent and "2" gives explainer_agent.
C21_EnterCarriesNoOverride ==
    /\ Some("") \notin TaskOverrides(log)
    /\ (DecisionOnLog /\ PipelineDone(log) /\ Override(log) \in {None, Some("")})
          => decision = None
    /\ decision # Some("")
    /\ AgentMapGet(Strip("1"), Strip("1")) = "refiner_agent"
    /\ AgentMapGet(Strip(" 2 "), Strip(" 2 ")) = "explainer_agent"

\* C22: the task quit, in any letter case, ends the loop without a run,
\* whatever was typed at the selection prompt: the step from the prompt to
\* the end of the loop leaves the thread, the decision, the dispatched
\* participants and the pairs as they were, and no quit task is ever in the
\* thread.
C22_QuitEndsLoop ==
    /\ [](\A i \in 1..Len(log) :
             log[i].source = "user" =>
                log[i].content \notin {JText("quit/no_think"), JText("QUIT/no_think")})
    /\ [][(pc = "input" /\ pc' = "exit")
             => UNCHANGED <<log, decision, error, speaker, sub, rr, dispatched,
                            nTasks>>]_vars

C22_Witness ==
    /\ pc = "exit"
    /\ error = "none"
    /\ nTasks = 1
    /\ dispatched = <<"team_insight">>
    /\ Sources(log) = <<"user", "word_insight_agent", "word_insight_json_agent">>

\* C23: refiner_agent and explainer_agent have a message in the thread only
\* after word_insight_json_agent, word_blueprint_json_agent and writer_agent
\* each have one: whatever the operator types, polishing and explaining come
\* after the pipeline.
C23_PolishAfterPipeline ==
    \A i \in 1..Len(log) :
       log[i].source \in {"refiner_agent", "explainer_agent"}
          => PipelineDone(SubSeq(log, 1, i - 1))

C23_Witness ==
    /\ Spoke(log, "explainer_agent")
    /\ Override(SubSeq(log, 1, 1)) = Some("explainer_agent")
    /\ FirstTurn(log, "writer_agent") < FirstTurn(log, "explainer_agent")
    /\ dispatched = <<"team_insight", "team_blueprint", "writer_agent",
                      "explainer_agent">>

(***************************************************************************)
(* The session with an operator who keeps submitting tasks other than quit *)
(* and a model whose every call returns an answer.                         *)
(***************************************************************************)
ProgressSelectInputs == {"", "1", "writer_agent", "foo"}

ProgressNext ==
    \/ \E task \in Tasks, select_input \in ProgressSelectInputs :
          SubmitUpTo(task, select_input, MaxLiveTasks)
    \/ SelectSpeaker
    \/ \E out \in ContentOutputs(speaker) : AgentReply(out)
    \/ TeamStart
    \/ \E out \in ContentOutputs(sub.agent) : ContentReply(out)
    \/ \E mode \in RepairModes : RepairReply(mode)
    \/ SaveState

ProgressSpec == Init /\ [][ProgressNext]_vars /\ WF_vars(ProgressNext)

\* the submission during which a source first spoke, 0 if it has not
FirstRun(l, a) ==
    IF Spoke(l, a) THEN UserTurns(SubSeq(l, 1, FirstTurn(l, a))) ELSE 0

\* C24: with every model call answered and tasks other than quit being
\* submitted, writer_agent eventually speaks, and it first does so during
\* the third submission whatever was typed at the selection prompts; each of
\* the first three submissions runs exactly the next stage of the pipeline.
C24_PipelineProgress ==
    /\ <>Spoke(log, "writer_agent")
    /\ [](/\ Spoke(log, "writer_agent") => FirstRun(log, "writer_agent") = 3
          /\ (nTasks > 3 \/ (nTasks = 3 /\ pc \in {"save", "input"}))
                => Spoke(log, "writer_agent")
          /\ (nTasks <= 3 /\ pc \in {"save", "input"})
                => dispatched = SubSeq(Pipeline, 1, nTasks)
          /\ (nTasks <= 3 /\ pc \notin {"save", "input"})
                => /\ error = "none"
                   /\ IsPrefix(dispatched, SubSeq(Pipeline, 1, nTasks))
                   /\ Len(dispatched) >= nTasks - 1)

C24_Witness ==
    /\ pc = "save"
    /\ nTasks = 3
    /\ Sources(RunTail(log)) = <<"writer_agent">>
    /\ TaskOverrides(log) = {Some(""), Some("foo"), Some("refiner_agent")}
    /\ dispatched = Pipeline

\* selector_func gets to its last line, the read of messages[-1].metadata:
\* none of the three returns before it is taken
ReadsLast(messages) ==
    LET names == agent_names(messages) IN
    /\ ~("word_insight_json_agent" \notin names)
    /\ ~(/\ "word_insight_json_agent" \in names
         /\ "word_blueprint_json_agent" \notin names)
    /\ ~(/\ "word_insight_json_agent" \in names
         /\ "word_blueprint_json_agent" \in names
         /\ "writer_agent" \notin names)

\* C25: on the empty log, and on a log none of whose messages has a source,
\* selector_func returns team_insight by its first rule; it reads the last
\* message's metadata only on a log, then not empty, in which the three
\* pipeline identities have all spoken.
C25_NeverReadsEmptyLog ==
    pc = "sel_done" =>
       /\ log = <<>> => (decision = Some("team_insight") /\ ~ReadsLast(log))
       /\ IdentitySet(log) = {} => (decision = Some("team_insight") /\ ~ReadsLast(log))
       /\ ReadsLast(log) => (log # <<>> /\ PipelineDone(log))
       /\ ReadsLast(log2) => (log2 # <<>> /\ PipelineDone(log2))
       /\ ~ReadsLast(log) =>
             decision \in {Some("team_insight"), Some("team_blueprint"),
                           Some("writer_agent")}

C25_Witness ==
    /\ pc = "sel_done"
    /\ log = <<>>
    /\ log2 = <<>>
    /\ decision = Some("team_insight")
    /\ decision2 = Some("team_insight")

====
